---- MODULE Spec2Model ----
(***************************************************************************)
(* Mistri.AI: ingestion pipeline (backend/rag_ingest.py), intent router    *)
(* and diagnose request flow (backend/main.py), configuration singleton    *)
(* (backend/config.py).                                                    *)
(***************************************************************************)
EXTENDS Integers, Sequences, FiniteSets, TLC

VARIABLES
    \* ---- RAGIngestor.ingest_error_codes ----
    ipc,            \* position of the ingestion run
    run,            \* number of ingestion runs started so far
    error_codes,    \* list returned by load_error_codes
    i,              \* loop index of enumerate(error_codes)
    embed_log,      \* outcome of each generate_embedding call of this run
    embeddings,     \* accumulator: embedding vectors
    metadata,       \* accumulator: metadata entries
    category_index, \* accumulator: category -> list of ids
    index,          \* rows of the in-memory faiss index
    failure,        \* exception that ended the run ("none" if none)
    disk,           \* the three artifacts in the vector store directory
    store_before,   \* the artifacts as they were when the run started
    \* ---- detect_intent called on its own ----
    r_pc,           \* "call" before the call, "returned" after it
    r_text,         \* argument text
    r_has_image,    \* argument has_image
    r_result,       \* the value returned
    \* ---- AWSConfig ----
    env,            \* the process environment (after load_dotenv)
    cfg_instance,   \* AWSConfig._instance is not None
    cfg_initialized,\* _instance._initialized
    cfg,            \* attributes of the instance
    cfg_last,       \* how the last AWSConfig() call ended
    cfg_missing,    \* variables named by the ValueError of _validate
    cfg_attempts,   \* number of times the body of __init__ has run
    cfg_objects,    \* number of objects created by super().__new__
    \* ---- diagnose request handler ----
    dpc,            \* position of the request in the handler
    query_text,     \* form field text, passed on as query_text
    image,          \* the upload: "none", "valid" or "corrupt"
    image_bytes,    \* "none" or "contents"
    intent_category,\* result of detect_intent
    search_raised,  \* search_manual raised
    matches,        \* list returned by search_manual
    response,       \* the HTTP outcome of the request
    router_has_image, \* the has_image argument given to detect_intent
    search_call,    \* the keyword arguments given to search_manual
    \* ---- retriever (search_manual) ----
    store,          \* the category index store the retriever has loaded
    ret_pc,         \* position of a direct search_manual call
    ret_hint,       \* its category argument
    ret_top_k,      \* its top_k argument
    ret_threshold,  \* the configured similarity threshold
    ret_distances,  \* L2 distance of the query to each row
    ret_result,     \* the matches returned
    ret_history     \* thresholds and results of the calls on these inputs

ingestVars == <<ipc, run, error_codes, i, embed_log, embeddings, metadata,
                category_index, index, failure, disk, store_before>>
routerVars == <<r_pc, r_text, r_has_image, r_result>>
configVars == <<env, cfg_instance, cfg_initialized, cfg, cfg_last, cfg_missing,
                cfg_attempts, cfg_objects>>
diagnoseVars == <<dpc, query_text, image, image_bytes, intent_category,
                  search_raised, matches, response, router_has_image,
                  search_call>>
searchInputVars == <<ret_threshold, ret_distances>>
retrieverVars == <<store, ret_pc, ret_hint, ret_top_k, ret_result, ret_history,
                   searchInputVars>>

\* ------------------------------------------------------------------------
\* Bounds
\* ------------------------------------------------------------------------
MaxRecords == 5
MaxRebuildRecords == 2
MaxRuns == 2
MaxPieces == 3
MaxAttempts == 2
MaxStoreRecords == 2
MaxTopK == 3

\* ------------------------------------------------------------------------
\* config.py category constants
\* ------------------------------------------------------------------------
CATEGORY_ERROR_CODES == "ERROR_CODES"
CATEGORY_SCHEMATICS == "SCHEMATICS"
CATEGORY_GENERAL == "GENERAL"
Categories == {CATEGORY_ERROR_CODES, CATEGORY_SCHEMATICS, CATEGORY_GENERAL}

otherThanIngest == <<routerVars, configVars, diagnoseVars, retrieverVars>>
otherThanRouter == <<ingestVars, configVars, diagnoseVars, retrieverVars>>
otherThanConfig == <<ingestVars, routerVars, diagnoseVars, retrieverVars>>
otherThanDiagnose == <<ingestVars, routerVars, configVars, store, ret_pc,
                       ret_hint, ret_top_k, ret_result, ret_history>>
otherThanRetriever == <<ingestVars, routerVars, configVars, diagnoseVars>>
vars == <<ingestVars, routerVars, configVars, diagnoseVars, retrieverVars>>

\* ------------------------------------------------------------------------
\* Ingestion: data
\* ------------------------------------------------------------------------
\* Rows of the CSV file: code, name and description columns.
SampleCodes == <<"IE", "UE", "DE", "FE", "dE", "PE">>
SampleNames == <<"Inlet", "Unbalance", "Drain", "Overflow", "Door", "Pressure">>

CsvRow(k) ==
    LET j == ((k - 1) % Len(SampleCodes)) + 1
    IN [code |-> SampleCodes[j], name |-> SampleNames[j],
        description |-> <<"cause", k>>]

\* load_error_codes: the rows of the file, in file order.
load_error_codes(n) == [k \in 1..n |-> CsvRow(k)]

\* f"Error {code}: {name} - {description}"
format_error_text(error) ==
    <<"Error ", error.code, ": ", error.name, " - ", error.description>>

\* Vector lengths the embedding service may answer with.
EmbedDims == {1024, 1536}

\* generate_embedding either raises or returns a vector of some length.
EmbedFailed == [ok |-> FALSE, dim |-> 0]
EmbedOutcomes == {EmbedFailed} \cup {[ok |-> TRUE, dim |-> d] : d \in EmbedDims}

\* The vector returned for a text: opaque but tied to the text embedded.
EmbeddingOf(text, outcome) == [text |-> text, dim |-> outcome.dim]

EmptyCategoryIndex == [c \in Categories |-> <<>>]

\* The id stored in a metadata entry and in the partition list.
RecordId(loopIndex, meta) == loopIndex

\* 'category': config.CATEGORY_ERROR_CODES, for every row of the file.
RecordCategory_Schematics(error) == CATEGORY_SCHEMATICS

RecordCategory(error) == CATEGORY_ERROR_CODES

MetadataEntry(id, error, text) ==
    [id |-> id, category |-> RecordCategory(error), type |-> "text",
     code |-> error.code, name |-> error.name,
     description |-> error.description, text |-> text]

\* Accumulators after a successful loop body.
AppendRecord(acc, loopIndex, error, outcome) ==
    LET text == format_error_text(error)
        id == RecordId(loopIndex, acc.metadata)
    IN [embeddings |-> Append(acc.embeddings, EmbeddingOf(text, outcome)),
        metadata |-> Append(acc.metadata, MetadataEntry(id, error, text)),
        category_index |->
            [acc.category_index EXCEPT
                ![RecordCategory(error)] = Append(@, id)]]

\* Accumulators after the except branch: error logged, record skipped.
SkipRecord_KeepsMetadata(acc, loopIndex, error) ==
    [acc EXCEPT !.metadata =
        Append(@, MetadataEntry(loopIndex, error, format_error_text(error)))]

SkipRecord(acc, loopIndex, error) == acc

\* "if not embeddings"
NoEmbeddings_Never(embs) == FALSE

NoEmbeddings(embs) == Len(embs) = 0

\* np.vstack raises unless all vectors have the same length.
UniformDimension_Always(embs) == TRUE

UniformDimension(embs) ==
    \A p, q \in 1..Len(embs) : embs[p].dim = embs[q].dim

\* ------------------------------------------------------------------------
\* Ingestion: the artifacts on disk
\* ------------------------------------------------------------------------
AbsentFile(empty) == [state |-> "absent", build |-> 0, content |-> empty]
CorruptFile(b, empty) == [state |-> "corrupt", build |-> b, content |-> empty]
WrittenFile(b, c) == [state |-> "ok", build |-> b, content |-> c]

EmptyDisk ==
    [index_file |-> AbsentFile(<<>>),
     metadata_file |-> AbsentFile(<<>>),
     category_index_file |-> AbsentFile(EmptyCategoryIndex)]

\* Outcomes of one write: done, or an OSError before or after the file was
\* opened for writing (which truncates it).
WriteOutcomes == {"ok", "open_failed", "write_failed"}

\* ------------------------------------------------------------------------
\* Ingestion: operations
\* ------------------------------------------------------------------------
IngestInit ==
    /\ ipc = "idle"
    /\ run = 0
    /\ error_codes = <<>>
    /\ i = 0
    /\ embed_log = <<>>
    /\ embeddings = <<>>
    /\ metadata = <<>>
    /\ category_index = EmptyCategoryIndex
    /\ index = <<>>
    /\ failure = "none"
    /\ disk = EmptyDisk
    /\ store_before = EmptyDisk

\* ingest_error_codes is called: the CSV is loaded and the accumulators are
\* created empty.  At most maxRuns runs, one after the other; the CSV has at
\* most maxRows rows.
StartIngest(maxRows, maxRuns) ==
    /\ ipc \in {"idle", "done", "failed"}
    /\ run < maxRuns
    /\ run' = run + 1
    /\ store_before' = disk
    /\ i' = 0
    /\ embed_log' = <<>>
    /\ embeddings' = <<>>
    /\ metadata' = <<>>
    /\ category_index' = EmptyCategoryIndex
    /\ index' = <<>>
    /\ \/ \E n \in 0..maxRows :
            /\ error_codes' = load_error_codes(n)
            /\ ipc' = "loop"
            /\ failure' = "none"
       \/ \* load_error_codes raises (file unreadable, column missing)
          /\ error_codes' = <<>>
          /\ ipc' = "failed"
          /\ failure' = "load"
    /\ UNCHANGED disk
    /\ UNCHANGED otherThanIngest

\* One iteration of "for i, error in enumerate(error_codes)".
ProcessRecord ==
    /\ ipc = "loop"
    /\ i < Len(error_codes)
    /\ \E outcome \in EmbedOutcomes :
        LET error == error_codes[i + 1]
            acc == [embeddings |-> embeddings, metadata |-> metadata,
                    category_index |-> category_index]
            acc2 == IF outcome.ok
                    THEN AppendRecord(acc, i, error, outcome)
                    ELSE SkipRecord(acc, i, error)
        IN /\ embed_log' = Append(embed_log, outcome)
           /\ embeddings' = acc2.embeddings
           /\ metadata' = acc2.metadata
           /\ category_index' = acc2.category_index
    /\ i' = i + 1
    /\ UNCHANGED <<ipc, run, error_codes, index, failure, disk, store_before>>
    /\ UNCHANGED otherThanIngest

\* After the loop: the emptiness check, np.vstack, IndexFlatL2 and add.
BuildIndex ==
    /\ ipc = "loop"
    /\ i = Len(error_codes)
    /\ IF NoEmbeddings(embeddings)
       THEN /\ ipc' = "failed"
            /\ failure' = "no_embeddings"
            /\ index' = index
       ELSE IF ~UniformDimension(embeddings)
       THEN /\ ipc' = "failed"
            /\ failure' = "vstack"
            /\ index' = index
       ELSE /\ ipc' = "write_index"
            /\ failure' = failure
            /\ index' = embeddings
    /\ UNCHANGED <<run, error_codes, i, embed_log, embeddings, metadata,
                   category_index, disk, store_before>>
    /\ UNCHANGED otherThanIngest

\* The file after one write attempt.
WriteFile(old, outcome, content, empty) ==
    CASE outcome = "ok" -> WrittenFile(run, content)
      [] outcome = "open_failed" -> old
      [] outcome = "write_failed" -> CorruptFile(run, empty)

AfterWrite(outcome, nextPc) ==
    IF outcome = "ok"
    THEN ipc' = nextPc /\ failure' = failure
    ELSE ipc' = "failed" /\ failure' = "io"

\* faiss.write_index(index, index_file)
WriteIndex ==
    /\ ipc = "write_index"
    /\ \E outcome \in WriteOutcomes :
        /\ disk' = [disk EXCEPT !.index_file =
                        WriteFile(@, outcome, index, <<>>)]
        /\ AfterWrite(outcome, "write_metadata")
    /\ UNCHANGED <<run, error_codes, i, embed_log, embeddings, metadata,
                   category_index, index, store_before>>
    /\ UNCHANGED otherThanIngest

\* json.dump(metadata, metadata_file)
WriteMetadata ==
    /\ ipc = "write_metadata"
    /\ \E outcome \in WriteOutcomes :
        /\ disk' = [disk EXCEPT !.metadata_file =
                        WriteFile(@, outcome, metadata, <<>>)]
        /\ AfterWrite(outcome, "write_category_index")
    /\ UNCHANGED <<run, error_codes, i, embed_log, embeddings, metadata,
                   category_index, index, store_before>>
    /\ UNCHANGED otherThanIngest

\* json.dump(category_index, category_index_file)
WriteCategoryIndex ==
    /\ ipc = "write_category_index"
    /\ \E outcome \in WriteOutcomes :
        /\ disk' = [disk EXCEPT !.category_index_file =
                        WriteFile(@, outcome, category_index,
                                  EmptyCategoryIndex)]
        /\ AfterWrite(outcome, "done")
    /\ UNCHANGED <<run, error_codes, i, embed_log, embeddings, metadata,
                   category_index, index, store_before>>
    /\ UNCHANGED otherThanIngest

\* ------------------------------------------------------------------------
\* Ingestion: what a reader of the directory finds
\* ------------------------------------------------------------------------
StoreComplete(d) ==
    /\ d.index_file.state = "ok"
    /\ d.metadata_file.state = "ok"
    /\ d.category_index_file.state = "ok"
    /\ d.index_file.build = d.metadata_file.build
    /\ d.metadata_file.build = d.category_index_file.build

StoreAbsent(d) ==
    /\ d.index_file.state = "absent"
    /\ d.metadata_file.state = "absent"
    /\ d.category_index_file.state = "absent"

SeqRange(s) == {s[p] : p \in 1..Len(s)}

\* Input positions (0-based, as enumerate counts) whose embedding succeeded.
RECURSIVE Succeeded(_)
Succeeded(log) ==
    IF log = <<>> THEN <<>>
    ELSE LET front == Succeeded(SubSeq(log, 1, Len(log) - 1))
         IN IF log[Len(log)].ok THEN Append(front, Len(log) - 1) ELSE front


\* ------------------------------------------------------------------------
\* Intent router (main.py detect_intent): characters and strings
\* ------------------------------------------------------------------------
LowerLetters == <<"a", "b", "c", "d", "e", "f", "g", "h", "i", "j", "k", "l",
                  "m", "n", "o", "p", "q", "r", "s", "t", "u", "v", "w", "x",
                  "y", "z">>
UpperLetters == <<"A", "B", "C", "D", "E", "F", "G", "H", "I", "J", "K", "L",
                  "M", "N", "O", "P", "Q", "R", "S", "T", "U", "V", "W", "X",
                  "Y", "Z">>
Digits == {"0", "1", "2", "3", "4", "5", "6", "7", "8", "9"}

IsLower(ch) == \E k \in 1..26 : LowerLetters[k] = ch
IsAZ(ch) == \E k \in 1..26 : UpperLetters[k] = ch
IsDigit(ch) == ch \in Digits
\* \w : letters, digits and the underscore
IsWordChar(ch) == IsLower(ch) \/ IsAZ(ch) \/ IsDigit(ch) \/ ch = "_"

UpperChar(ch) ==
    IF IsLower(ch)
    THEN UpperLetters[CHOOSE k \in 1..26 : LowerLetters[k] = ch]
    ELSE ch
LowerChar(ch) ==
    IF IsAZ(ch)
    THEN LowerLetters[CHOOSE k \in 1..26 : UpperLetters[k] = ch]
    ELSE ch

\* str.upper() and str.lower()
upper(text) == [p \in 1..Len(text) |-> UpperChar(text[p])]
lower(text) == [p \in 1..Len(text) |-> LowerChar(text[p])]

\* "keyword in text"
Contains(text, kw) ==
    \E s \in 1..(Len(text) - Len(kw) + 1) :
        \A j \in 1..Len(kw) : text[s + j - 1] = kw[j]

\* \b between positions p-1 and p of text (1-based, p in 1..Len+1)
WordAt(text, p) == p >= 1 /\ p <= Len(text) /\ IsWordChar(text[p])
WordBoundary(text, p) == WordAt(text, p - 1) # WordAt(text, p)

\* re.search(r'\b[A-Z]{1,3}\d?\b', text)
re_search_error_code(text) ==
    \E s \in 1..Len(text) : \E n \in 1..3 : \E d \in 0..1 :
        /\ s + n + d - 1 <= Len(text)
        /\ WordBoundary(text, s)
        /\ \A j \in s..(s + n - 1) : IsAZ(text[j])
        /\ d = 1 => IsDigit(text[s + n])
        /\ WordBoundary(text, s + n + d)

error_keywords ==
    << <<"e", "r", "r", "o", "r">>,
       <<"c", "o", "d", "e">>,
       <<"d", "i", "s", "p", "l", "a", "y">>,
       <<"s", "h", "o", "w", "i", "n", "g">>,
       <<"f", "l", "a", "s", "h", "i", "n", "g">> >>

NoCategory == "None"

\* The text the pattern is searched in.
PatternSubject_NoUpper(text) == text

PatternSubject(text) == upper(text)

KeywordFound(text) ==
    \E k \in 1..Len(error_keywords) : Contains(lower(text), error_keywords[k])

detect_intent_TextFirst(text, has_image) ==
    IF re_search_error_code(PatternSubject(text)) THEN CATEGORY_ERROR_CODES
    ELSE IF has_image THEN CATEGORY_SCHEMATICS
    ELSE IF KeywordFound(text) THEN CATEGORY_ERROR_CODES
    ELSE NoCategory

detect_intent(text, has_image) ==
    IF has_image THEN CATEGORY_SCHEMATICS
    ELSE IF re_search_error_code(PatternSubject(text))
    THEN CATEGORY_ERROR_CODES
    ELSE IF KeywordFound(text) THEN CATEGORY_ERROR_CODES
    ELSE NoCategory

\* ------------------------------------------------------------------------
\* Intent router: query texts and the call
\* ------------------------------------------------------------------------
\* Query texts are made of at most MaxPieces of these pieces.
Pieces ==
    {error_keywords[k] : k \in 1..Len(error_keywords)} \cup
    { <<"C", "O", "D", "E">>, <<"d">>, <<"E">>, <<"1">>, <<" ">>, <<"_">>,
      <<"-">> }

RECURSIVE TextsOf(_)
TextsOf(n) ==
    IF n = 0 THEN {<<>>}
    ELSE LET shorter == TextsOf(n - 1)
         IN shorter \cup {t \o piece : t \in shorter, piece \in Pieces}

RouterIdle ==
    /\ r_pc = "idle"
    /\ r_text = <<>>
    /\ r_has_image = FALSE
    /\ r_result = NoCategory

RouterInit ==
    /\ r_pc = "call"
    /\ r_text \in TextsOf(MaxPieces)
    /\ r_has_image \in BOOLEAN
    /\ r_result = NoCategory

Route ==
    /\ r_pc = "call"
    /\ r_result' = detect_intent(r_text, r_has_image)
    /\ r_pc' = "returned"
    /\ UNCHANGED <<r_text, r_has_image>>
    /\ UNCHANGED otherThanRouter

\* ------------------------------------------------------------------------
\* Configuration (config.py): environment values and conversions
\* ------------------------------------------------------------------------
\* A string is a sequence of characters; None / an unset variable is Unset.
Unset == [set |-> FALSE, value |-> <<>>]
Str(chars) == [set |-> TRUE, value |-> chars]

\* Python truthiness of an Optional[str]
Truthy(v) == v.set /\ Len(v.value) > 0

EnvNames == {"AWS_ACCESS_KEY_ID", "AWS_SECRET_ACCESS_KEY", "AWS_REGION",
             "BEDROCK_EMBED_MODEL", "BEDROCK_LLM_MODEL", "VECTOR_STORE_PATH",
             "TOP_K_RESULTS", "SIMILARITY_THRESHOLD"}

\* The values each variable takes in the environments explored.
EnvDomain(name) ==
    CASE name = "AWS_ACCESS_KEY_ID" ->
            {Unset, Str(<<>>), Str(<<"A", "K", "I", "A">>)}
      [] name = "AWS_SECRET_ACCESS_KEY" ->
            {Unset, Str(<<"s", "k">>)}
      [] name = "AWS_REGION" ->
            {Unset, Str(<<>>)}
      [] name = "TOP_K_RESULTS" ->
            {Unset, Str(<<"5">>), Str(<<"0">>), Str(<<"t", "e", "n">>)}
      [] name = "SIMILARITY_THRESHOLD" ->
            {Unset, Str(<<"0", ".", "7", "5">>), Str(<<"1", ".", "5">>),
             Str(<<"h", "i">>)}
      [] OTHER -> {Unset}

\* os.getenv(name, default)
getenv(e, name, default) == IF e[name].set THEN e[name] ELSE default

DigitChars == <<"0", "1", "2", "3", "4", "5", "6", "7", "8", "9">>
DigitValue(ch) == (CHOOSE k \in 1..10 : DigitChars[k] = ch) - 1
AllDigits(s) == \A p \in 1..Len(s) : IsDigit(s[p])

RECURSIVE DigitsValue(_)
DigitsValue(s) ==
    IF s = <<>> THEN 0
    ELSE 10 * DigitsValue(SubSeq(s, 1, Len(s) - 1)) + DigitValue(s[Len(s)])

\* str.strip() of blanks
RECURSIVE Strip(_)
Strip(s) ==
    IF s = <<>> THEN s
    ELSE IF s[1] = " " THEN Strip(Tail(s))
    ELSE IF s[Len(s)] = " " THEN Strip(SubSeq(s, 1, Len(s) - 1))
    ELSE s

HasSign(s) == Len(s) > 0 /\ s[1] \in {"+", "-"}
Unsigned(s) == IF HasSign(s) THEN Tail(s) ELSE s
Signed(s, n) == IF HasSign(s) /\ s[1] = "-" THEN 0 - n ELSE n

\* int(text): optional sign and decimal digits, else ValueError.
ParseInt(text) ==
    LET s == Strip(text)
        body == Unsigned(s)
    IN IF Len(body) > 0 /\ AllDigits(body)
       THEN [ok |-> TRUE, value |-> Signed(s, DigitsValue(body))]
       ELSE [ok |-> FALSE, value |-> 0]

\* Floats are kept in thousandths.
FloatUnit == 1000

PointAt(s) == IF \E p \in 1..Len(s) : s[p] = "."
              THEN CHOOSE p \in 1..Len(s) :
                        s[p] = "." /\ \A q \in 1..(p - 1) : s[q] # "."
              ELSE Len(s) + 1

\* The first three fraction digits, as thousandths.
Thousandths(frac) ==
    LET padded == SubSeq(frac \o <<"0", "0", "0">>, 1, 3)
    IN DigitsValue(padded)

\* float(text): optional sign, digits with at most one point, else
\* ValueError (decimal literals only).
ParseFloat(text) ==
    LET s == Strip(text)
        body == Unsigned(s)
        pt == PointAt(body)
        whole == SubSeq(body, 1, pt - 1)
        frac == SubSeq(body, pt + 1, Len(body))
    IN IF AllDigits(whole) /\ AllDigits(frac) /\ Len(whole) + Len(frac) > 0
       THEN [ok |-> TRUE,
             value |-> Signed(s, DigitsValue(whole) * FloatUnit
                                 + Thousandths(frac))]
       ELSE [ok |-> FALSE, value |-> 0]

\* ------------------------------------------------------------------------
\* Configuration: the singleton
\* ------------------------------------------------------------------------
\* An instance on which __init__ has assigned nothing yet.
BlankConfig ==
    [assigned |-> {},
     aws_access_key_id |-> Unset,
     aws_secret_access_key |-> Unset,
     aws_region |-> Unset,
     bedrock_embed_model |-> Unset,
     bedrock_llm_model |-> Unset,
     vector_store_path |-> Unset,
     top_k_results |-> 0,
     similarity_threshold |-> 0]

\* Lines 58-80: credentials, region, model ids and store path.
LoadStrings(c, e) ==
    [c EXCEPT
        !.assigned = @ \cup {"aws_access_key_id", "aws_secret_access_key",
                             "aws_region", "bedrock_embed_model",
                             "bedrock_llm_model", "vector_store_path"},
        !.aws_access_key_id = e["AWS_ACCESS_KEY_ID"],
        !.aws_secret_access_key = e["AWS_SECRET_ACCESS_KEY"],
        !.aws_region = getenv(e, "AWS_REGION", Str(<<"us-east-1">>)),
        !.bedrock_embed_model =
            getenv(e, "BEDROCK_EMBED_MODEL",
                   Str(<<"amazon.titan-embed-text-v2:0">>)),
        !.bedrock_llm_model =
            getenv(e, "BEDROCK_LLM_MODEL",
                   Str(<<"anthropic.claude-3-5-sonnet-20240620-v1:0">>)),
        !.vector_store_path =
            getenv(e, "VECTOR_STORE_PATH", Str(<<"./data/vector_store">>))]

\* _validate: the names of the missing credentials, in the order appended.
MissingVariables(c) ==
    (IF Truthy(c.aws_access_key_id) THEN <<>> ELSE <<"AWS_ACCESS_KEY_ID">>)
    \o (IF Truthy(c.aws_secret_access_key) THEN <<>>
        ELSE <<"AWS_SECRET_ACCESS_KEY">>)

\* Whether _initialized is set once _validate has returned.
MarkInitialized_BeforeValidate(missing) == TRUE

MarkInitialized(missing) == missing = <<>>

\* __init__ on an instance that is not initialized: the attributes are
\* assigned in source order until a statement raises.
RunInit(c, e) ==
    LET c1 == LoadStrings(c, e)
        topk == ParseInt(getenv(e, "TOP_K_RESULTS", Str(<<"3">>)).value)
        c2 == [c1 EXCEPT !.assigned = @ \cup {"top_k_results"},
                         !.top_k_results = topk.value]
        thr == ParseFloat(
                 getenv(e, "SIMILARITY_THRESHOLD", Str(<<"0", ".", "6">>)).value)
        c3 == [c2 EXCEPT !.assigned = @ \cup {"similarity_threshold",
                                              "CATEGORY_ERROR_CODES",
                                              "CATEGORY_SCHEMATICS",
                                              "CATEGORY_GENERAL"},
                         !.similarity_threshold = thr.value]
        missing == MissingVariables(c3)
    IN IF ~topk.ok
       THEN [cfg |-> c1, last |-> "ValueError_int", missing |-> <<>>,
             initialized |-> FALSE]
       ELSE IF ~thr.ok
       THEN [cfg |-> c2, last |-> "ValueError_float", missing |-> <<>>,
             initialized |-> FALSE]
       ELSE IF missing # <<>>
       THEN [cfg |-> c3, last |-> "ValueError_missing", missing |-> missing,
             initialized |-> MarkInitialized(missing)]
       ELSE [cfg |-> c3, last |-> "returned", missing |-> <<>>,
             initialized |-> MarkInitialized(missing)]

ConfigIdle ==
    /\ env = [n \in EnvNames |-> Unset]
    /\ cfg_instance = FALSE
    /\ cfg_initialized = FALSE
    /\ cfg = BlankConfig
    /\ cfg_last = "none"
    /\ cfg_missing = <<>>
    /\ cfg_attempts = 0
    /\ cfg_objects = 0

\* The environment changes between two calls.
SetEnv ==
    /\ \E n \in EnvNames : \E v \in EnvDomain(n) :
        /\ v # env[n]
        /\ env' = [env EXCEPT ![n] = v]
    /\ UNCHANGED <<cfg_instance, cfg_initialized, cfg, cfg_last, cfg_missing,
                   cfg_attempts, cfg_objects>>
    /\ UNCHANGED otherThanConfig

\* __new__: "if cls._instance is None" a new object is created.
NewInstanceNeeded(hasInstance) == ~hasInstance

\* __init__: "if self._initialized: return"; a new object starts with
\* _initialized = False.
AlreadyInitialized_Never(created, initialized) == FALSE

AlreadyInitialized(created, initialized) == ~created /\ initialized

\* AWSConfig(): __new__ followed by __init__.
Construct ==
    LET created == NewInstanceNeeded(cfg_instance)
        fresh == IF created THEN BlankConfig ELSE cfg
        wasInitialized == AlreadyInitialized(created, cfg_initialized)
        r == RunInit(fresh, env)
    IN /\ wasInitialized \/ cfg_attempts < MaxAttempts
       /\ cfg_instance' = TRUE
       /\ cfg_objects' = IF created THEN cfg_objects + 1 ELSE cfg_objects
       /\ IF wasInitialized
          THEN /\ cfg_last' = "returned_existing"
               /\ UNCHANGED <<cfg, cfg_initialized, cfg_missing, cfg_attempts>>
          ELSE /\ cfg' = r.cfg
               /\ cfg_attempts' = cfg_attempts + 1
               /\ cfg_initialized' = r.initialized
               /\ cfg_last' = r.last
               /\ cfg_missing' = r.missing
       /\ UNCHANGED env
       /\ UNCHANGED otherThanConfig

\* get_boto3_session_kwargs
get_boto3_session_kwargs(c) ==
    [aws_access_key_id |-> c.aws_access_key_id,
     aws_secret_access_key |-> c.aws_secret_access_key,
     region_name |-> c.aws_region]

\* ------------------------------------------------------------------------
\* The /diagnose request handler (main.py diagnose)
\* ------------------------------------------------------------------------
\* Query texts of the requests explored.
SampleQueries ==
    { <<>>,
      <<"I", "E", " ">> \o error_keywords[1] \o <<" ">> \o error_keywords[4],
      <<"n", "o", "t", " ">> \o <<"d", "r", "a", "i", "n", "i", "n", "g">>,
      <<"d", "r", "a", "i", "n", "i", "n", "g">> }

Uploads == {"none", "valid", "corrupt"}

\* top_k passed to search_manual
DiagnoseTopK == 3

\* Matches search_manual may return; has_keys tells whether the entry has
\* the 'code', 'name' and 'description' keys the formatting reads.
MatchPool ==
    {[code |-> "IE", name |-> "Inlet", description |-> "no water",
      similarity_score |-> 900, has_keys |-> TRUE],
     [code |-> "SCH1", name |-> "Board", description |-> "schematic",
      similarity_score |-> 700, has_keys |-> TRUE],
     [code |-> "", name |-> "", description |-> "",
      similarity_score |-> 650, has_keys |-> FALSE]}

RECURSIVE MatchLists(_)
MatchLists(n) ==
    IF n = 0 THEN {<<>>}
    ELSE LET shorter == MatchLists(n - 1)
         IN shorter \cup {Append(l, m) : l \in shorter, m \in MatchPool}

NoResponse == [status |-> 0, detail |-> "none", diagnosis |-> "none",
               steps |-> "none", matched_errors |-> <<>>,
               confidence_score |-> 0]

ErrorResponse(status, detail) ==
    [NoResponse EXCEPT !.status = status, !.detail = detail]

\* generate_repair_steps: the template of the code, or the generic steps.
generate_repair_steps(error_match) ==
    IF error_match.code \in {"IE", "UE", "DE", "FE", "dE"}
    THEN error_match.code
    ELSE "generic"

\* The DiagnosisResponse built from a non-empty list of matches.
DiagnosisResponse(ms) ==
    [status |-> 200, detail |-> "diagnosis",
     diagnosis |-> ms[1].code,
     steps |-> generate_repair_steps(ms[1]),
     matched_errors |-> [p \in 1..Len(ms) |-> ms[p].code],
     confidence_score |-> ms[1].similarity_score]

\* The HTTPException raised when search_manual raises.
SearchFailedResponse_AsNoMatch ==
    ErrorResponse(404, "No matching error codes found")

SearchFailedResponse == ErrorResponse(500, "Search failed")

NoMatchResponse == ErrorResponse(404, "No matching error codes found")

\* "except Exception" around the whole handler.
InternalErrorResponse == ErrorResponse(500, "Internal server error")

\* The formatting raises KeyError on an entry without the keys it reads.
FormattingRaises(ms) == \E p \in 1..Len(ms) : ~ms[p].has_keys

\* "has_image=image is not None"
HasImageArgument_FromBytes(upload, bytes) == bytes # "none"

HasImageArgument(upload, bytes) == upload # "none"

\* No search_manual call made yet.
NoSearchCall == [query_text |-> <<>>, query_image_bytes |-> "none",
                 intent_category |-> NoCategory, top_k |-> 0]

\* The keyword arguments of the search_manual call.
SearchKwargs_NoIntent(qtext, bytes, intent) ==
    [query_text |-> qtext, query_image_bytes |-> bytes,
     intent_category |-> NoCategory, top_k |-> DiagnoseTopK]

SearchKwargs(qtext, bytes, intent) ==
    [query_text |-> qtext, query_image_bytes |-> bytes,
     intent_category |-> intent, top_k |-> DiagnoseTopK]

DiagnoseIdle ==
    /\ dpc = "idle"
    /\ query_text = <<>>
    /\ image = "none"
    /\ image_bytes = "none"
    /\ intent_category = NoCategory
    /\ search_raised = FALSE
    /\ matches = <<>>
    /\ response = NoResponse
    /\ router_has_image = FALSE
    /\ search_call = NoSearchCall

\* A request arrives.
Receive ==
    /\ dpc \in {"idle", "responded"}
    /\ query_text' \in SampleQueries
    /\ image' \in Uploads
    /\ image_bytes' = "none"
    /\ intent_category' = NoCategory
    /\ search_raised' = FALSE
    /\ matches' = <<>>
    /\ response' = NoResponse
    /\ router_has_image' = FALSE
    /\ search_call' = NoSearchCall
    /\ ret_threshold' = 0
    /\ ret_distances' = <<>>
    /\ dpc' = "image"
    /\ UNCHANGED otherThanDiagnose

\* "if image:" read and open it; a failure is logged and ignored.
ProcessImage ==
    /\ dpc = "image"
    /\ image_bytes' = IF image = "valid" THEN "contents" ELSE "none"
    /\ dpc' = "route"
    /\ UNCHANGED <<query_text, image, intent_category, search_raised, matches,
                   response, router_has_image, search_call>>
    /\ UNCHANGED searchInputVars
    /\ UNCHANGED otherThanDiagnose

\* intent_category = detect_intent(query_text, has_image=image is not None)
DetectIntent ==
    /\ dpc = "route"
    /\ router_has_image' = HasImageArgument(image, image_bytes)
    /\ intent_category' = detect_intent(query_text, router_has_image')
    /\ dpc' = "search"
    /\ UNCHANGED <<query_text, image, image_bytes, search_raised, matches,
                   response, search_call>>
    /\ UNCHANGED searchInputVars
    /\ UNCHANGED otherThanDiagnose

\* The call of search_manual: it raises or returns at most top_k matches.
Search ==
    /\ dpc = "search"
    /\ search_call' = SearchKwargs(query_text, image_bytes, intent_category)
    /\ \/ /\ search_raised' = TRUE
          /\ matches' = <<>>
          /\ response' = SearchFailedResponse
          /\ dpc' = "responded"
       \/ /\ search_raised' = FALSE
          /\ matches' \in MatchLists(DiagnoseTopK)
          /\ response' = response
          /\ dpc' = "format"
    /\ UNCHANGED <<query_text, image, image_bytes, intent_category,
                   router_has_image>>
    /\ UNCHANGED searchInputVars
    /\ UNCHANGED otherThanDiagnose

\* "if not matches" and the formatting of the response.
Respond ==
    /\ dpc = "format"
    /\ response' = IF Len(matches) = 0 THEN NoMatchResponse
                   ELSE IF FormattingRaises(matches)
                   THEN InternalErrorResponse
                   ELSE DiagnosisResponse(matches)
    /\ dpc' = "responded"
    /\ UNCHANGED <<query_text, image, image_bytes, intent_category, search_raised,
                   matches, router_has_image, search_call>>
    /\ UNCHANGED searchInputVars
    /\ UNCHANGED otherThanDiagnose

\* ------------------------------------------------------------------------
\* Retriever (backend/rag_retrieve.py search_manual)
\* ------------------------------------------------------------------------
\* No store loaded.
NoStore == [state |-> "unloaded", rows |-> <<>>, metadata |-> <<>>,
            category_index |-> EmptyCategoryIndex]

RetrieverIdle ==
    /\ store = NoStore
    /\ ret_pc = "idle"
    /\ ret_hint = NoCategory
    /\ ret_top_k = 0
    /\ ret_threshold = 0
    /\ ret_distances = <<>>
    /\ ret_result = <<>>
    /\ ret_history = <<>>

\* Distances (in thousandths) of a query to a stored vector, and the
\* thresholds the configuration may hold.
Distances == {0, 695, 1000, 3000}
Thresholds == {500, 600}

\* similarity = 1 / (1 + distance), in thousandths.
Similarity(d) == (FloatUnit * FloatUnit) \div (FloatUnit + d)

\* A candidate survives unless its similarity is strictly below the
\* threshold.
PassesThreshold_Strict(sim, thr) == sim > thr

PassesThreshold(sim, thr) == sim >= thr

\* The candidate id set: the partition of the hinted category, or all ids.
Candidates(st, hint) ==
    IF hint = NoCategory THEN 0..(Len(st.rows) - 1)
    ELSE SeqRange(st.category_index[hint])

\* Row a sorts no later than row b: similarity descending, then id ascending.
Better(dists, a, b) ==
    \/ Similarity(dists[a + 1]) > Similarity(dists[b + 1])
    \/ Similarity(dists[a + 1]) = Similarity(dists[b + 1]) /\ a <= b

RECURSIVE Ranked(_, _)
Ranked(S, dists) ==
    IF S = {} THEN <<>>
    ELSE LET best == CHOOSE a \in S : \A b \in S : Better(dists, a, b)
         IN <<best>> \o Ranked(S \ {best}, dists)

\* Truncate to top_k.
Truncate_OneMore(ranked, top_k) ==
    SubSeq(ranked, 1, IF Len(ranked) < top_k + 1 THEN Len(ranked) ELSE top_k + 1)

Truncate(ranked, top_k) ==
    SubSeq(ranked, 1, IF Len(ranked) < top_k THEN Len(ranked) ELSE top_k)

\* The Match record of row id.
MatchOf(st, dists, id) ==
    [id |-> id, code |-> st.metadata[id + 1].code,
     name |-> st.metadata[id + 1].name,
     description |-> st.metadata[id + 1].description,
     similarity_score |-> Similarity(dists[id + 1]), has_keys |-> TRUE]

SearchRaised(cause) == [raised |-> TRUE, cause |-> cause, matches |-> <<>>]

\* search(query_text, query_image_bytes, category_hint, top_k); the embedder's
\* answer is given as embed_ok and the distances of the query to the rows.
search_manual(st, dists, embed_ok, hint, top_k, thr) ==
    IF ~embed_ok THEN SearchRaised("embedding")
    ELSE IF st.state # "available" \/ Len(st.rows) = 0
    THEN SearchRaised("store")
    ELSE IF ~(Candidates(st, hint) \subseteq 0..(Len(st.rows) - 1))
    THEN SearchRaised("lookup")
    ELSE LET passing == {id \in Candidates(st, hint) :
                            PassesThreshold(Similarity(dists[id + 1]), thr)}
             kept == Truncate(Ranked(passing, dists), top_k)
         IN [raised |-> FALSE, cause |-> "none",
             matches |-> [p \in 1..Len(kept) |-> MatchOf(st, dists, kept[p])]]

\* A store whose rows carry the given categories, ids in row order.
StoreOf(cats) ==
    LET n == Len(cats)
        text(p) == format_error_text(CsvRow(p))
    IN [state |-> "available",
        rows |-> [p \in 1..n |-> EmbeddingOf(text(p), [ok |-> TRUE, dim |-> 1024])],
        metadata |-> [p \in 1..n |->
            [MetadataEntry(p - 1, CsvRow(p), text(p)) EXCEPT !.category = cats[p]]],
        category_index |-> [c \in Categories |->
            SelectSeq([p \in 1..n |-> p - 1], LAMBDA id : cats[id + 1] = c)]]

RetrievalStores ==
    {StoreOf(cats) : cats \in UNION {[1..n -> Categories] : n \in 0..MaxStoreRecords}}

\* Records 0 and 1 under ERROR_CODES, record 2 under SCHEMATICS.
ScenarioStore ==
    StoreOf(<<CATEGORY_ERROR_CODES, CATEGORY_ERROR_CODES, CATEGORY_SCHEMATICS>>)

\* The store as read from the three files: available only if all three
\* are present and readable.
LoadedStore(d) ==
    IF /\ d.index_file.state = "ok"
       /\ d.metadata_file.state = "ok"
       /\ d.category_index_file.state = "ok"
    THEN [state |-> "available", rows |-> d.index_file.content,
          metadata |-> d.metadata_file.content,
          category_index |-> d.category_index_file.content]
    ELSE [NoStore EXCEPT !.state = "unavailable"]

\* The service reads the store the ingestion run left on disk.
LoadStore ==
    /\ ipc \in {"done", "failed"}
    /\ store.state = "unloaded"
    /\ dpc = "idle"
    /\ store' = LoadedStore(disk)
    /\ UNCHANGED <<ret_pc, ret_hint, ret_top_k, ret_result, ret_history,
                   searchInputVars>>
    /\ UNCHANGED otherThanRetriever

\* A direct call of search_manual on the inputs drawn at the start.
Retrieve ==
    /\ ret_pc = "call"
    /\ \E embed_ok \in BOOLEAN :
         LET r == search_manual(store, ret_distances, embed_ok, ret_hint,
                                ret_top_k, ret_threshold)
         IN /\ ret_pc' = IF r.raised THEN r.cause ELSE "returned"
            /\ ret_result' = r.matches
            /\ ret_history' =
                 IF r.raised THEN ret_history
                 ELSE Append(ret_history,
                             [threshold |-> ret_threshold,
                              ids |-> [p \in 1..Len(r.matches) |-> r.matches[p].id]])
    /\ UNCHANGED <<store, ret_hint, ret_top_k, searchInputVars>>
    /\ UNCHANGED otherThanRetriever

\* The configured threshold is raised; the next call has the same inputs.
RaiseThreshold ==
    /\ ret_pc \in {"returned", "embedding"}
    /\ \E t \in Thresholds : t > ret_threshold /\ ret_threshold' = t
    /\ ret_pc' = "call"
    /\ UNCHANGED <<store, ret_hint, ret_top_k, ret_distances, ret_result,
                   ret_history>>
    /\ UNCHANGED otherThanRetriever

\* diagnose calls search_manual on the loaded store.
SearchStore ==
    /\ dpc = "search"
    /\ search_call' = SearchKwargs(query_text, image_bytes, intent_category)
    /\ \E embed_ok \in BOOLEAN, thr \in Thresholds,
          dists \in [1..Len(store.rows) -> Distances] :
         LET r == search_manual(store, dists, embed_ok,
                                search_call'.intent_category,
                                search_call'.top_k, thr)
         IN /\ ret_threshold' = thr
            /\ ret_distances' = dists
            /\ search_raised' = r.raised
            /\ matches' = r.matches
            /\ response' = IF r.raised THEN SearchFailedResponse ELSE response
            /\ dpc' = IF r.raised THEN "responded" ELSE "format"
    /\ UNCHANGED <<query_text, image, image_bytes, intent_category,
                   router_has_image>>
    /\ UNCHANGED otherThanDiagnose

\* ------------------------------------------------------------------------
\* Specifications of the ingestion pipeline
\* ------------------------------------------------------------------------
\* One build into a fresh vector store directory.
Init == IngestInit /\ RouterIdle /\ ConfigIdle /\ DiagnoseIdle /\ RetrieverIdle

FirstBuild == StartIngest(MaxRecords, 1)

Next ==
    \/ FirstBuild
    \/ ProcessRecord
    \/ BuildIndex
    \/ WriteIndex
    \/ WriteMetadata
    \/ WriteCategoryIndex

Spec == Init /\ [][Next]_vars

\* Builds and rebuilds of the same directory, one run after the other.
Rebuild == StartIngest(MaxRebuildRecords, MaxRuns)

NextRebuild ==
    \/ Rebuild
    \/ ProcessRecord
    \/ BuildIndex
    \/ WriteIndex
    \/ WriteMetadata
    \/ WriteCategoryIndex

SpecRebuild == Init /\ [][NextRebuild]_vars

\* ------------------------------------------------------------------------
\* Properties of the ingestion pipeline
\* ------------------------------------------------------------------------
PartitionIds(cat) == UNION {SeqRange(cat[c]) : c \in Categories}

NoDuplicates(s) == \A p, q \in 1..Len(s) : s[p] = s[q] => p = q

\* C1: in every store a successful run wrote, the partitions' id lists are
\* pairwise disjoint and together are exactly the rows 0..N-1 of the index.
PartitionInvariant ==
    ipc = "done" =>
        LET cat == disk.category_index_file.content
            N == Len(disk.index_file.content)
        IN /\ \A c \in Categories : NoDuplicates(cat[c])
           /\ \A c, d \in Categories :
                c # d => SeqRange(cat[c]) \cap SeqRange(cat[d]) = {}
           /\ PartitionIds(cat) = 0..(N - 1)

\* C2: in every store a successful run wrote, the metadata entry at
\* position p has id p and index row p is the embedding of that entry's text.
IdRowAlignment ==
    ipc = "done" =>
        LET meta == disk.metadata_file.content
            rows == disk.index_file.content
        IN /\ Len(meta) = Len(rows)
           /\ \A p \in 1..Len(meta) :
                /\ meta[p].id = p - 1
                /\ rows[p].text = meta[p].text

\* The record of input position k (0-based) and what its success leaves.
InputRecord(k) == error_codes[k + 1]

\* C3: embedding failures are absorbed.  The three accumulators always have
\* one entry per successful embedding call so far, in input order, and
\* nothing for a failed call; a run in which some call succeeded is never
\* ended by the failed ones; the written store holds exactly those entries.
FailuresAbsorbed ==
    LET ok == Succeeded(embed_log)
    IN /\ Len(embeddings) = Len(ok)
       /\ Len(metadata) = Len(ok)
       /\ Len(category_index[CATEGORY_ERROR_CODES]) = Len(ok)
       /\ \A p \in 1..Len(ok) :
            /\ embeddings[p] =
                 EmbeddingOf(format_error_text(InputRecord(ok[p])),
                             embed_log[ok[p] + 1])
            /\ metadata[p].code = InputRecord(ok[p]).code
            /\ metadata[p].text = format_error_text(InputRecord(ok[p]))
       /\ (ipc = "failed" /\ failure = "no_embeddings") => Len(ok) = 0
       /\ (ipc = "failed" /\ Len(ok) > 0) => failure \in {"vstack", "io"}
       /\ (ipc = "failed" /\ failure = "vstack") =>
            ~UniformDimension(embeddings)
       /\ ipc = "done" =>
            /\ disk.index_file = WrittenFile(run, embeddings)
            /\ disk.metadata_file = WrittenFile(run, metadata)
            /\ disk.category_index_file = WrittenFile(run, category_index)
            /\ Len(disk.index_file.content) = Len(ok)

NumFailed(log) == Cardinality({p \in 1..Len(log) : ~log[p].ok})

\* C3 witness: five inputs, one embedding failure, a store of four records.
FiveInputsOneFailure ==
    /\ ipc = "done"
    /\ Len(error_codes) = 5
    /\ NumFailed(embed_log) = 1
    /\ Len(disk.metadata_file.content) = 4
    /\ Len(disk.index_file.content) = 4
    /\ Len(disk.category_index_file.content[CATEGORY_ERROR_CODES]) = 4

\* C4: a run in which no embedding succeeded ends in the fatal error and
\* leaves the three artifacts exactly as they were when it started; no run
\* reaches a write without a successful embedding.
BuildFailureLeavesStore ==
    /\ (ipc = "failed" /\ failure = "no_embeddings") => disk = store_before
    /\ (ipc \notin {"idle", "loop"} /\ failure # "load"
            /\ Len(Succeeded(embed_log)) = 0) =>
         /\ ipc = "failed"
         /\ failure = "no_embeddings"
         /\ disk = store_before

\* C4 witness: every embedding call of a rebuild failed and the store of
\* the previous successful build is still there.
AllFailedOverPreviousStore ==
    /\ ipc = "failed"
    /\ failure = "no_embeddings"
    /\ Len(error_codes) > 0
    /\ StoreComplete(store_before)
    /\ disk = store_before

\* The store a reader loads now is the one of the current run, complete.
NewStoreComplete(d) == StoreComplete(d) /\ d.index_file.build = run

\* C5: while and after a store that exists is rebuilt, a reader finds
\* either the complete previous store or the complete new one.
AtomicPersistence ==
    StoreComplete(store_before) =>
        \/ disk = store_before
        \/ NewStoreComplete(disk)

\* Two successful embedding calls of the run returned different lengths.
DistinctDimensions(log) ==
    \E p, q \in 1..Len(log) :
        log[p].ok /\ log[q].ok /\ log[p].dim # log[q].dim

\* C16: a run whose successful embeddings differ in length ends in the
\* fatal error of np.vstack with every embedded record still in the
\* accumulators, and the three artifacts are as they were when it started.
InconsistentDimensionFatal ==
    /\ (ipc \notin {"idle", "loop"} /\ DistinctDimensions(embed_log)) =>
         /\ ipc = "failed"
         /\ failure = "vstack"
    /\ (ipc = "failed" /\ failure = "vstack") =>
         /\ DistinctDimensions(embed_log)
         /\ Len(embeddings) = Len(Succeeded(embed_log))
         /\ disk = store_before

\* C16 witness: a rebuild met two vector lengths and the store of the
\* previous build is still complete and unchanged.
MixedDimensionsOverPreviousStore ==
    /\ ipc = "failed"
    /\ failure = "vstack"
    /\ DistinctDimensions(embed_log)
    /\ StoreComplete(store_before)
    /\ disk = store_before

\* ------------------------------------------------------------------------
\* Specification and properties of the intent router
\* ------------------------------------------------------------------------
InitRouter ==
    IngestInit /\ RouterInit /\ ConfigIdle /\ DiagnoseIdle /\ RetrieverIdle

NextRouter == Route

SpecRouter == InitRouter /\ [][NextRouter]_vars

\* The words of a text: its maximal runs of word characters, as pairs of
\* first and last position.
Words(text) ==
    {w \in (1..Len(text)) \X (1..Len(text)) :
        /\ w[1] <= w[2]
        /\ \A j \in w[1]..w[2] : IsWordChar(text[j])
        /\ w[1] = 1 \/ ~IsWordChar(text[w[1] - 1])
        /\ w[2] = Len(text) \/ ~IsWordChar(text[w[2] + 1])}

\* A word of 1 to 3 letters A-Z, optionally followed by one digit.
CodeShaped(text, w) ==
    LET len == w[2] - w[1] + 1
    IN \/ /\ len \in 1..3
          /\ \A j \in w[1]..w[2] : IsAZ(text[j])
       \/ /\ len \in 2..4
          /\ \A j \in w[1]..(w[2] - 1) : IsAZ(text[j])
          /\ IsDigit(text[w[2]])

HasCodeShapedWord(text) == \E w \in Words(text) : CodeShaped(text, w)

\* A word of 1 to 3 lowercase letters.
ShortLowercaseWord(text, w) ==
    /\ w[2] - w[1] + 1 <= 3
    /\ \A j \in w[1]..w[2] : IsLower(text[j])

\* C6: with an image the router returns SCHEMATICS whatever the text is.
ImageTakesPrecedence ==
    (r_pc = "returned" /\ r_has_image) => r_result = CATEGORY_SCHEMATICS

\* C6 witness: an image together with a text that has an error-code-shaped
\* word and an error keyword.
ImageWithErrorCodeText ==
    /\ r_pc = "returned"
    /\ r_has_image
    /\ HasCodeShapedWord(upper(r_text))
    /\ KeywordFound(r_text)
    /\ r_result = CATEGORY_SCHEMATICS

\* C7: without an image the router returns ERROR_CODES exactly when the
\* uppercased text has a code-shaped word or the lowercased text contains a
\* keyword, and "no restriction" otherwise; in particular a short lowercase
\* word is enough for ERROR_CODES.
TextRules ==
    (r_pc = "returned" /\ ~r_has_image) =>
        /\ r_result \in {CATEGORY_ERROR_CODES, NoCategory}
        /\ r_result = CATEGORY_ERROR_CODES <=>
             \/ HasCodeShapedWord(upper(r_text))
             \/ \E k \in 1..Len(error_keywords) :
                    Contains(lower(r_text), error_keywords[k])
        /\ (\E w \in Words(r_text) : ShortLowercaseWord(r_text, w)) =>
             r_result = CATEGORY_ERROR_CODES

\* C7 witness: a text without keyword whose only word is a short lowercase
\* one is routed to ERROR_CODES.
LowercaseWordRouted ==
    /\ r_pc = "returned"
    /\ ~r_has_image
    /\ ~KeywordFound(r_text)
    /\ Cardinality(Words(r_text)) = 1
    /\ \A w \in Words(r_text) : ShortLowercaseWord(r_text, w)
    /\ r_result = CATEGORY_ERROR_CODES

\* ------------------------------------------------------------------------
\* Specification and properties of the configuration
\* ------------------------------------------------------------------------
\* The process starts with none of the variables set.
InitConfig ==
    IngestInit /\ RouterIdle /\ ConfigIdle /\ DiagnoseIdle /\ RetrieverIdle

NextConfig == SetEnv \/ Construct

SpecConfig == InitConfig /\ [][NextConfig]_vars

KeysPresent(e) ==
    /\ Truthy(e["AWS_ACCESS_KEY_ID"])
    /\ Truthy(e["AWS_SECRET_ACCESS_KEY"])

\* The required variables that are unset or empty in e.
MissingIn(e) ==
    {n \in {"AWS_ACCESS_KEY_ID", "AWS_SECRET_ACCESS_KEY"} : ~Truthy(e[n])}

\* TOP_K_RESULTS and SIMILARITY_THRESHOLD are unset or written as numbers.
NumbersWellFormed(e) ==
    /\ e["TOP_K_RESULTS"].set => ParseInt(e["TOP_K_RESULTS"].value).ok
    /\ e["SIMILARITY_THRESHOLD"].set =>
         ParseFloat(e["SIMILARITY_THRESHOLD"].value).ok

\* A step that is an AWSConfig() call on an instance not yet initialized.
ConstructionAttempt == env' = env /\ ~cfg_initialized

Raised(last) == last \in {"ValueError_int", "ValueError_float",
                          "ValueError_missing"}

\* C9 as stated: construction succeeds exactly when both credentials are
\* non-empty, otherwise the ValueError names every missing variable; a
\* failed instance is not initialized and the next call loads again.
FailFastOnCredentialsOnly ==
    [][ConstructionAttempt =>
          /\ cfg_last' = "returned" <=> KeysPresent(env)
          /\ ~KeysPresent(env) =>
                /\ cfg_last' = "ValueError_missing"
                /\ SeqRange(cfg_missing') = MissingIn(env)
          /\ Raised(cfg_last') => ~cfg_initialized'
      ]_vars

\* C9 amended: construction succeeds exactly when both credentials are
\* non-empty and the two numeric settings are well formed; with well-formed
\* numbers and a credential missing, the ValueError names every missing
\* variable; a call that raised leaves the instance not initialized, and
\* every call on a not-initialized instance loads and validates again.
FailFast ==
    [][/\ ConstructionAttempt =>
            /\ cfg_last' = "returned" <=>
                 (KeysPresent(env) /\ NumbersWellFormed(env))
            /\ (~KeysPresent(env) /\ NumbersWellFormed(env)) =>
                 /\ cfg_last' = "ValueError_missing"
                 /\ SeqRange(cfg_missing') = MissingIn(env)
                 /\ Len(cfg_missing') = Cardinality(MissingIn(env))
            /\ ~NumbersWellFormed(env) =>
                 cfg_last' \in {"ValueError_int", "ValueError_float"}
            /\ cfg_attempts' = cfg_attempts + 1
            /\ Raised(cfg_last') => ~cfg_initialized'
            /\ cfg_last' = "returned" =>
                 /\ cfg_initialized'
                 /\ cfg'.aws_access_key_id = env["AWS_ACCESS_KEY_ID"]
                 /\ cfg'.aws_secret_access_key = env["AWS_SECRET_ACCESS_KEY"]
       /\ cfg_initialized' =>
            /\ Truthy(cfg'.aws_access_key_id)
            /\ Truthy(cfg'.aws_secret_access_key)
      ]_vars

\* C9 witness: a first call raised for missing credentials, the environment
\* was completed, and the next call loaded it and succeeded.
SecondAttemptSucceeded ==
    /\ cfg_attempts = 2
    /\ cfg_initialized
    /\ cfg_last = "returned"
    /\ Truthy(cfg.aws_access_key_id)
    /\ Truthy(cfg.aws_secret_access_key)
    /\ cfg.aws_access_key_id = env["AWS_ACCESS_KEY_ID"]

\* C10: every configuration that loaded has a positive top_k_results and a
\* similarity_threshold strictly between 0 and 1.
RetrievalParamsInRange ==
    cfg_initialized =>
        /\ cfg.top_k_results > 0
        /\ cfg.similarity_threshold > 0
        /\ cfg.similarity_threshold < FloatUnit

\* C11: the session kwargs of every configuration that loaded have exactly
\* the three keys, each with a non-empty value.
SessionKwargsComplete ==
    cfg_initialized =>
        LET kwargs == get_boto3_session_kwargs(cfg)
        IN /\ DOMAIN kwargs = {"aws_access_key_id", "aws_secret_access_key",
                               "region_name"}
           /\ \A k \in DOMAIN kwargs : Truthy(kwargs[k])

\* C12: at most one AWSConfig object ever exists, and once it is
\* initialized no step (a later AWSConfig() call, a change of the
\* environment) changes its fields or its initialized mark.
SingleSourceOfTruth ==
    [][/\ cfg_objects' <= 1
       /\ cfg_initialized =>
            /\ cfg' = cfg
            /\ cfg_initialized'
            /\ cfg_objects' = cfg_objects
      ]_vars

\* C12 witness: AWSConfig() was called on the initialized instance, the
\* environment now names other credentials and numbers than the fields do.
LaterCallKeepsFields ==
    /\ cfg_initialized
    /\ cfg_objects = 1
    /\ cfg_last = "returned_existing"
    /\ env["AWS_ACCESS_KEY_ID"] # cfg.aws_access_key_id
    /\ env["TOP_K_RESULTS"].set
    /\ ParseInt(env["TOP_K_RESULTS"].value).value # cfg.top_k_results

\* ------------------------------------------------------------------------
\* Specification and properties of the diagnose handler
\* ------------------------------------------------------------------------
InitDiagnose ==
    IngestInit /\ RouterIdle /\ ConfigIdle /\ DiagnoseIdle /\ RetrieverIdle

NextDiagnose ==
    \/ Receive
    \/ ProcessImage
    \/ DetectIntent
    \/ Search
    \/ Respond

SpecDiagnose == InitDiagnose /\ [][NextDiagnose]_vars

\* C8: a request whose search raised ends in 500 "Search failed"; it ends
\* in the 404 no-match outcome exactly when the search returned an empty
\* list; a diagnosis is produced only when the search returned matches.
SearchFailureIsNotNoMatch ==
    dpc = "responded" =>
        /\ search_raised =>
             /\ response.status = 500
             /\ response.detail = "Search failed"
        /\ response.status = 404 <=> (~search_raised /\ Len(matches) = 0)
        /\ response.status = 200 => (~search_raised /\ Len(matches) >= 1)
        /\ (~search_raised /\ Len(matches) >= 1 /\ ~FormattingRaises(matches))
             => response.status = 200
        /\ response.status # 200 => response.diagnosis = "none"

\* C8 witness: a request whose search raised was answered with 500.
SearchRaisedAnswered500 ==
    /\ dpc = "responded"
    /\ search_raised
    /\ response.status = 500
    /\ response.detail = "Search failed"


\* C18: the router's has_image argument is true exactly when a file was
\* uploaded; a request whose upload did not decode goes on without image
\* bytes, is still routed with has_image true to SCHEMATICS, and calls the
\* search with no image bytes and the SCHEMATICS restriction.
RoutingFollowsUpload ==
    /\ dpc \in {"search", "format", "responded"} =>
         /\ router_has_image <=> image # "none"
         /\ image = "corrupt" =>
              /\ image_bytes = "none"
              /\ intent_category = CATEGORY_SCHEMATICS
         /\ intent_category = CATEGORY_SCHEMATICS <=> image # "none"
    /\ dpc \in {"format", "responded"} =>
         /\ search_call.query_image_bytes = image_bytes
         /\ image = "corrupt" =>
              /\ search_call.query_image_bytes = "none"
              /\ search_call.intent_category = CATEGORY_SCHEMATICS

\* C18 witness: a request with an error-code text and an upload that did
\* not decode was answered after a search restricted to SCHEMATICS.
CorruptUploadRoutedToSchematics ==
    /\ dpc = "responded"
    /\ image = "corrupt"
    /\ image_bytes = "none"
    /\ HasCodeShapedWord(upper(query_text))
    /\ router_has_image
    /\ search_call.query_image_bytes = "none"
    /\ search_call.intent_category = CATEGORY_SCHEMATICS


\* ------------------------------------------------------------------------
\* Specification and properties of the retriever
\* ------------------------------------------------------------------------
InitRetrieve ==
    /\ IngestInit /\ RouterIdle /\ ConfigIdle /\ DiagnoseIdle
    /\ store \in RetrievalStores
    /\ ret_pc = "call"
    /\ ret_hint \in Categories \cup {NoCategory}
    /\ ret_top_k \in 1..MaxTopK
    /\ ret_threshold \in Thresholds
    /\ ret_distances \in [1..Len(store.rows) -> Distances]
    /\ ret_result = <<>>
    /\ ret_history = <<>>

NextRetrieve == Retrieve \/ RaiseThreshold

SpecRetrieve == InitRetrieve /\ [][NextRetrieve]_vars

\* Rows of the store that belong to the hinted category (all rows without
\* a hint), read from the metadata.
RowsInScope(hint) ==
    {id \in 0..(Len(store.rows) - 1) :
        hint = NoCategory \/ store.metadata[id + 1].category = hint}

\* Rows in scope whose similarity is not below the threshold thr.
EligibleRows(hint, thr) ==
    {id \in RowsInScope(hint) :
        ~((FloatUnit * FloatUnit) \div (FloatUnit + ret_distances[id + 1]) < thr)}

ResultIds(ms) == {ms[p].id : p \in 1..Len(ms)}

\* C14: a returned result is never longer than top_k nor than the set of
\* eligible candidates; it holds all eligible candidates when top_k exceeds
\* their number, without repetition or padding, and a call raises only for
\* an embedding failure or an empty store.
TopKBound ==
    /\ ret_pc = "returned" =>
         LET eligible == EligibleRows(ret_hint, ret_threshold)
         IN /\ Len(ret_result) <= ret_top_k
            /\ Len(ret_result) <= Cardinality(eligible)
            /\ ResultIds(ret_result) \subseteq eligible
            /\ Cardinality(ResultIds(ret_result)) = Len(ret_result)
            /\ ret_top_k >= Cardinality(eligible) =>
                 ResultIds(ret_result) = eligible
    /\ ret_pc \notin {"call", "returned", "embedding"} =>
         ret_pc = "store" /\ Len(store.rows) = 0

\* C14 witness: top_k = 3 and two candidates pass the threshold; the result
\* has length 2.
TwoOfThreeReturned ==
    /\ ret_pc = "returned"
    /\ ret_top_k = 3
    /\ Cardinality(EligibleRows(ret_hint, ret_threshold)) = 2
    /\ Len(ret_result) = 2

\* C15: a candidate is left out of the result when its similarity is
\* strictly below the threshold and, room within top_k permitting, only
\* then; a call with a higher threshold on the same query and store never
\* returns more matches.
ThresholdMonotone ==
    /\ ret_pc = "returned" =>
         \A id \in RowsInScope(ret_hint) :
            LET sim == (FloatUnit * FloatUnit) \div (FloatUnit + ret_distances[id + 1])
            IN /\ sim < ret_threshold => id \notin ResultIds(ret_result)
               /\ (sim >= ret_threshold /\ Len(ret_result) < ret_top_k) =>
                    id \in ResultIds(ret_result)
    /\ \A p, q \in 1..Len(ret_history) :
         ret_history[p].threshold < ret_history[q].threshold =>
            Len(ret_history[q].ids) <= Len(ret_history[p].ids)

\* C15 witness: a candidate with similarity 0.589 was returned at threshold
\* 0.5 and left out at threshold 0.6.
NearMissExcluded ==
    /\ ret_pc = "returned"
    /\ Len(ret_history) = 2
    /\ ret_history[1].threshold = 500
    /\ ret_history[2].threshold = 600
    /\ \E id \in RowsInScope(ret_hint) :
         /\ ret_distances[id + 1] = 695
         /\ id \in SeqRange(ret_history[1].ids)
         /\ id \notin SeqRange(ret_history[2].ids)


\* ------------------------------------------------------------------------
\* Specification and properties of diagnose over a loaded store
\* ------------------------------------------------------------------------
InitEndToEnd ==
    /\ IngestInit /\ RouterIdle /\ ConfigIdle /\ DiagnoseIdle
    /\ store = ScenarioStore
    /\ ret_pc = "idle"
    /\ ret_hint = NoCategory
    /\ ret_top_k = 0
    /\ ret_threshold = 0
    /\ ret_distances = <<>>
    /\ ret_result = <<>>
    /\ ret_history = <<>>

NextEndToEnd ==
    \/ Receive
    \/ ProcessImage
    \/ DetectIntent
    \/ SearchStore
    \/ Respond

SpecEndToEnd == InitEndToEnd /\ [][NextEndToEnd]_vars

\* The query "IE error showing".
ErrorCodeQuery ==
    <<"I", "E", " ", "e", "r", "r", "o", "r", " ",
      "s", "h", "o", "w", "i", "n", "g">>

\* C13: the search is called with the category the router returned, and
\* when that is a category every returned match is a record of that
\* category; for the store with records 0 and 1 under ERROR_CODES and 2
\* under SCHEMATICS, the query "IE error showing" without an image is
\* routed to ERROR_CODES and record 2 is never among its matches.
CategoryScoping ==
    dpc \in {"format", "responded"} =>
        /\ search_call.intent_category =
              detect_intent(query_text, image # "none")
        /\ search_call.intent_category # NoCategory =>
              \A p \in 1..Len(matches) :
                 store.metadata[matches[p].id + 1].category =
                    search_call.intent_category
        /\ (query_text = ErrorCodeQuery /\ image = "none") =>
              /\ search_call.intent_category = CATEGORY_ERROR_CODES
              /\ 2 \notin ResultIds(matches)

\* C13 witness: "IE error showing" without an image was answered with
\* records 0 and 1 although record 2 was the nearest vector.
NearestRecordOutOfScope ==
    /\ dpc = "responded"
    /\ query_text = ErrorCodeQuery
    /\ image = "none"
    /\ response.status = 200
    /\ ret_distances[3] = 0
    /\ ret_distances[1] = 695
    /\ ResultIds(matches) = {0, 1}

\* ------------------------------------------------------------------------
\* Specification and properties of diagnose over a store built by ingestion
\* ------------------------------------------------------------------------
ServeBuild == StartIngest(MaxRebuildRecords, 1)

\* Requests are served once the store has been read.
ServeRequest == store.state # "unloaded" /\ Receive

NextServe ==
    \/ ServeBuild
    \/ ProcessRecord
    \/ BuildIndex
    \/ WriteIndex
    \/ WriteMetadata
    \/ WriteCategoryIndex
    \/ LoadStore
    \/ ServeRequest
    \/ ProcessImage
    \/ DetectIntent
    \/ SearchStore
    \/ Respond

SpecServe == Init /\ [][NextServe]_vars

\* Every record of the loaded store is filed under ERROR_CODES.
OnlyErrorCodes ==
    /\ \A p \in 1..Len(store.metadata) :
          store.metadata[p].category = CATEGORY_ERROR_CODES
    /\ store.category_index[CATEGORY_SCHEMATICS] = <<>>
    /\ store.category_index[CATEGORY_GENERAL] = <<>>

\* C17 as stated: a built store has all its records under ERROR_CODES, and
\* every request with an image is routed to SCHEMATICS and ends in 404.
ImageQueriesEndIn404 ==
    store.state = "available" =>
        /\ OnlyErrorCodes
        /\ image # "none" =>
             /\ dpc \in {"search", "format", "responded"} =>
                   intent_category = CATEGORY_SCHEMATICS
             /\ dpc = "responded" => response.status = 404

\* C17 amended: a built store has all its records under ERROR_CODES; every
\* request with an image is routed to SCHEMATICS and never gets a diagnosis:
\* it ends in 404 with no match, unless the search call itself raised, and
\* then in 500 "Search failed".
ImageQueriesNeverDiagnosed ==
    store.state = "available" =>
        /\ OnlyErrorCodes
        /\ image # "none" =>
             /\ dpc \in {"search", "format", "responded"} =>
                   intent_category = CATEGORY_SCHEMATICS
             /\ dpc \in {"format", "responded"} =>
                   /\ search_call.intent_category = CATEGORY_SCHEMATICS
                   /\ matches = <<>>
             /\ dpc = "responded" =>
                   IF search_raised THEN response = SearchFailedResponse
                   ELSE response = NoMatchResponse

\* C17 witness: an error-code query with a decodable image, against a built
\* store whose only vector coincides with the query, was answered 404.
ImageQueryFoundNothing ==
    /\ store.state = "available"
    /\ dpc = "responded"
    /\ image = "valid"
    /\ query_text = ErrorCodeQuery
    /\ Len(store.rows) >= 1
    /\ ret_distances[1] = 0
    /\ response = NoMatchResponse

====
